---- MODULE Spec2Model ----
(***************************************************************************)
(* Model of bridge.py: the iCUE -> Magic Home colour bridge.               *)
(*                                                                         *)
(* start_bridge constructs an iCueController (the source reader) and a     *)
(* MagicHomeController (the target actuator) and then loops: sample the    *)
(* average LED colour, forward it with set_color when one is returned,     *)
(* sleep.  Leaving the loop runs the finally block, which calls turn_off.  *)
(*                                                                         *)
(* The program is single threaded; pc is its position.  The outcomes of    *)
(* the device calls (SDK connect, LED read, bulb connect, setRgb, turnOff) *)
(* and the arrival of KeyboardInterrupt are chosen by the environment.     *)
(***************************************************************************)
EXTENDS Integers, Sequences, FiniteSets, TLC

VARIABLES
    pc,            \* position of start_bridge
    device,        \* iCueController.device is set (not None)
    led_ids,       \* len(iCueController.led_ids)
    last_colors,   \* iCueController.last_colors: None or the per-LED tuple
    color,         \* start_bridge's local `color`
    bulb,          \* MagicHomeController.bulb is set (not None)
    last_color,    \* MagicHomeController.last_color: None or a colour
    step,          \* loop variable of the fade in set_color
    sampleOut,     \* how the latest get_average_color call ended
    reconnectOut,  \* outcome of the last reconnect() of that call
    callOut,       \* how the set_color call of this tick ended
    callStart,     \* last_color when that set_color call began
    callFresh,     \* that call was the first set_color call ever made
    callConnects,  \* connect() attempts made by that call
    written,       \* the colours that call passed to setRgb, in order
    failedAt,      \* index of the setRgb write of that call that raised
    fresh,         \* no set_color call has been made yet
    devLast,       \* last command the device received successfully
    turnOffCalls,  \* number of turn_off invocations
    offOut,        \* how turn_off ended
    offConnects,   \* connect() attempts made by turn_off
    offCommands,   \* turnOff() commands issued by turn_off
    deviceLost,    \* a reconnect() of the latest sample found no device
    stable         \* from now on: source reading constant, target reachable

vars == <<pc, device, led_ids, last_colors, color, bulb, last_color, step,
          sampleOut, reconnectOut, callOut, callStart, callFresh,
          callConnects, written, failedAt, fresh, devLast, turnOffCalls,
          offOut, offConnects, offCommands, deviceLost, stable>>

----------------------------------------------------------------------------
(* Bounds and constants *)

\* Number of addressable LEDs the source device reports.
NumLeds == 2

\* MagicHomeController.transition_steps
transition_steps == 10

\* The colours a single LED can show in the model.
LedColors == {<<0, 0, 0>>, <<255, 0, 0>>, <<0, 255, 0>>, <<180, 0, 0>>}

\* What get_led_colors can return when it returns elements.
Readings == [1..NumLeds -> LedColors]

\* Python's None.  A missing tuple is modelled as the empty tuple, so
\* that the truth test of `if color:` / `if self.last_color:` is one test.
None == <<>>

\* A truth test that also takes the all-zero colour for false.
TruthyNonZero(x) == Len(x) > 0 /\ x # <<0, 0, 0>>

\* bool(x) for x None or a tuple: only None and () are false.
Truthy(x) == Len(x) > 0

----------------------------------------------------------------------------
(* iCueController *)

RECURSIVE SumChannel(_, _, _)
\* sum(led.<ch> for led in led_colors), over the first n elements
SumChannel(leds, ch, n) ==
    IF n = 0 THEN 0 ELSE leds[n][ch] + SumChannel(leds, ch, n - 1)

\* An average that rounds to the nearest integer instead of truncating.
AverageColorRounded(leds) ==
    LET count == Len(leds)
    IN  << (2 * SumChannel(leds, 1, count) + count) \div (2 * count),
           (2 * SumChannel(leds, 2, count) + count) \div (2 * count),
           (2 * SumChannel(leds, 3, count) + count) \div (2 * count) >>

\* int(total / count) for each channel.  The operands are small
\* non-negative integers, so the float quotient truncates to the floor.
AverageColor(leds) ==
    LET count == Len(leds)
    IN  << SumChannel(leds, 1, count) \div count,
           SumChannel(leds, 2, count) \div count,
           SumChannel(leds, 3, count) \div count >>

\* The ways __init__ and reconnect() can end.
ReconnectOutcomes == {"ok", "ok_noleds", "connect_fail", "not_found"}

\* A reconnect() that logs a missing device and returns normally.
ReconnectSwallowsNotFound(r) == r = "connect_fail"

\* reconnect(): the fields after it and whether it raised.
\*   connect_fail: sdk.connect returned false, RuntimeError before any
\*                 assignment;
\*   not_found:    self.device = None is assigned, then RuntimeError;
\*   ok_noleds:    device found, get_led_positions returned nothing.
\* Every exception is logged and re-raised.
ReconnectRaises(r) == r \in {"connect_fail", "not_found"}

Reconnect(r, dev, leds) ==
    CASE r = "ok"           -> [device |-> TRUE,  led_ids |-> NumLeds, raised |-> ReconnectRaises(r)]
      [] r = "ok_noleds"    -> [device |-> TRUE,  led_ids |-> 0,       raised |-> ReconnectRaises(r)]
      [] r = "connect_fail" -> [device |-> dev,   led_ids |-> leds,    raised |-> ReconnectRaises(r)]
      [] r = "not_found"    -> [device |-> FALSE, led_ids |-> leds,    raised |-> ReconnectRaises(r)]

\* `current_colors == self.last_colors`: the comparison that suppresses
\* an unchanged reading.  It compares the per-LED tuples.
Unchanged(current_colors, lc) == current_colors = lc

\* get_average_color().  read is how sdk.get_led_colors ended ("raise",
\* "empty" or "ok" with `reading`); r1 and r2 are the outcomes of the
\* reconnect() calls it may make.
GetAverageColor(dev, leds, lc, read, reading, r1, r2) ==
    LET e1 == Reconnect(r1, dev, leds)
        e2 == Reconnect(r2, e1.device, e1.led_ids)
        once == [device |-> e1.device, led_ids |-> e1.led_ids,
                 last_colors |-> lc, ret |-> None, raised |-> e1.raised,
                 out |-> IF e1.raised THEN "raised" ELSE "reconnected",
                 reconnect |-> r1, lost |-> (r1 = "not_found")]
        twice == [device |-> e2.device, led_ids |-> e2.led_ids,
                  last_colors |-> lc, ret |-> None, raised |-> e2.raised,
                  out |-> IF e2.raised THEN "raised" ELSE "reconnected",
                  reconnect |-> r2,
                  lost |-> (r1 = "not_found" \/ r2 = "not_found")]
    IN  IF ~dev \/ leds = 0
        THEN once                      \* reconnect() outside the try
        ELSE IF read = "raise"
        THEN once                      \* except: reconnect()
        ELSE IF read = "empty"
        THEN IF e1.raised THEN twice   \* raised in the try: except: reconnect()
                          ELSE once
        ELSE IF Unchanged(reading, lc)
        THEN [device |-> dev, led_ids |-> leds, last_colors |-> lc,
              ret |-> None, raised |-> FALSE, out |-> "suppressed",
              reconnect |-> "none", lost |-> FALSE]
        ELSE [device |-> dev, led_ids |-> leds, last_colors |-> reading,
              ret |-> AverageColor(reading), raised |-> FALSE,
              out |-> "returned", reconnect |-> "none", lost |-> FALSE]

----------------------------------------------------------------------------
(* MagicHomeController *)

\* The (start, end, step) triples, for 10 steps and channels in 0..255, at
\* which the float product (end - start) * (step / 10) falls just below
\* the exact value, so that int() yields one less than the exact floor.
FloatShort ==
    { <<0, 90, 7>>, <<0, 170, 7>>, <<0, 180, 7>>, <<1, 91, 7>>,
      <<1, 171, 7>>, <<1, 181, 7>>, <<2, 172, 7>>, <<2, 182, 7>>,
      <<3, 173, 7>>, <<4, 174, 7>>, <<5, 175, 7>>, <<6, 176, 7>>,
      <<7, 177, 7>>, <<8, 178, 7>>, <<9, 179, 7>> }

\* An interpolation whose progress is the step number itself.
InterpolateChannelNoDivision(s, e, stp) == s + (e - s) * stp

\* int(start + (end - start) * progress), progress = stp / transition_steps
InterpolateChannel(s, e, stp) ==
    ((s * transition_steps + (e - s) * stp) \div transition_steps)
        - (IF <<s, e, stp>> \in FloatShort THEN 1 ELSE 0)

interpolate_color(start_color, end_color, stp) ==
    << InterpolateChannel(start_color[1], end_color[1], stp),
       InterpolateChannel(start_color[2], end_color[2], stp),
       InterpolateChannel(start_color[3], end_color[3], stp) >>

\* `if self.last_color:`: fade when a last colour is known.
FadeFrom(lc) == Truthy(lc)

\* `self.last_color = (r, g, b)` after every write succeeded.
StoredColor(c) == c

\* A no-fade branch that writes black instead of the colour asked for.
DirectColorBlack(c) == <<0, 0, 0>>

\* The colour of the single write of the no-fade branch: setRgb(r, g, b).
DirectColor(c) == c

\* A fade that logs the failed write and goes on with the next step.
AfterWriteFailContinue(stp) ==
    IF stp > 0 /\ stp < transition_steps
    THEN [pc |-> "fade", step |-> stp + 1]
    ELSE [pc |-> "sleep", step |-> 0]

\* After a setRgb that raised: bulb = None and return.
AfterWriteFail(stp) == [pc |-> "sleep", step |-> 0]

\* A set_color that goes on to the write although connect() failed.
AfterConnectFailGoOn(lc) == IF Truthy(lc) THEN "fade" ELSE "direct"

\* `if not self.bulb: return` after a connect() that failed.
AfterConnectFail(lc) == "sleep"

\* A fade that records every colour it has written as the last colour.
AfterStepColorTracks(lc, c) == c

\* last_color after a write that succeeded and is not the call's last:
\* the loop body does not assign it.
AfterStepColor(lc, c) == lc

\* connect() calls of turn_off: one when there is no bulb, else none.
OffConnectAttempts(b) == IF b THEN 0 ELSE 1

\* A turn_off that blanks the strip with a colour write.
OffCommandRgb == "rgb"

\* The command turn_off sends, as the device records it.
OffCommand == "off"

----------------------------------------------------------------------------
(* start_bridge *)

\* A loop without the `except Exception` / finally pair: an Exception
\* leaves start_bridge.
ExitToUncaught(exc) ==
    CASE exc = "KeyboardInterrupt" -> "finally"
      [] exc = "Exception"         -> "crashed"

\* Where control goes when the loop is left by an exception: both except
\* clauses fall into the finally block.
ExitTo(exc) ==
    CASE exc = "KeyboardInterrupt" -> "finally"
      [] exc = "Exception"         -> "finally"

\* A finally block inside the `while True`: the loop goes on after it.
AfterFinallyLoops == "sample"

\* After the finally block start_bridge returns.
AfterFinally == "done"

\* What the environment decides during one get_average_color call: a
\* reading when the read succeeds, else how the read and the reconnects end.
SampleInputs ==
    [read : {"ok"}, reading : Readings, r1 : {"ok"}, r2 : {"ok"}]
    \cup [read : {"raise", "empty"}, reading : {[i \in 1..NumLeds |-> <<0, 0, 0>>]},
          r1 : ReconnectOutcomes, r2 : ReconnectOutcomes]

LoopPcs == {"sample", "set_color", "fade", "direct", "sleep"}

CallOuts == {"none", "ok", "connect_fail", "write_fail"}

NoCall ==
    /\ callOut' = "none"
    /\ callStart' = None
    /\ callFresh' = FALSE
    /\ callConnects' = 0
    /\ written' = <<>>
    /\ failedAt' = 0

Init ==
    /\ pc = "init"
    /\ device = FALSE
    /\ led_ids = 0
    /\ last_colors = None
    /\ color = None
    /\ bulb = FALSE
    /\ last_color = None
    /\ step = 0
    /\ sampleOut = "none"
    /\ reconnectOut = "none"
    /\ callOut = "none"
    /\ callStart = None
    /\ callFresh = FALSE
    /\ callConnects = 0
    /\ written = <<>>
    /\ failedAt = 0
    /\ fresh = TRUE
    /\ devLast = "none"
    /\ turnOffCalls = 0
    /\ offOut = "none"
    /\ offConnects = 0
    /\ offCommands = 0
    /\ deviceLost = FALSE
    /\ stable = FALSE

\* iCueController(...) and MagicHomeController(...).  An Exception of the
\* constructor is logged and start_bridge returns.
Construct ==
    /\ pc = "init"
    /\ \E r \in ReconnectOutcomes :
         LET e == Reconnect(r, FALSE, 0)
         IN  /\ device' = e.device
             /\ led_ids' = e.led_ids
             /\ pc' = IF e.raised THEN "failed" ELSE "sample"
    /\ UNCHANGED <<last_colors, color, bulb, last_color, step, sampleOut,
                   reconnectOut, deviceLost, callOut, callStart, callFresh, callConnects,
                   written, failedAt, fresh, devLast, turnOffCalls, offOut, offConnects, offCommands,
                   stable>>

\* KeyboardInterrupt while the controllers are constructed: `except
\* Exception` does not catch it and it leaves start_bridge.
InterruptInit ==
    /\ pc = "init"
    /\ pc' = "crashed"
    /\ UNCHANGED <<device, led_ids, last_colors, color, bulb, last_color,
                   step, sampleOut, reconnectOut, deviceLost, callOut, callStart,
                   callFresh, callConnects, written, failedAt, fresh,
                   devLast, turnOffCalls, offOut, offConnects, offCommands, stable>>

\* color = icue.get_average_color(); if color: ...
Sample ==
    /\ pc = "sample"
    /\ \E in \in SampleInputs :
         /\ stable => (in.read = "ok" /\ in.reading = last_colors)
         /\ LET g == GetAverageColor(device, led_ids, last_colors,
                                     in.read, in.reading, in.r1, in.r2)
            IN  /\ device' = g.device
                /\ led_ids' = g.led_ids
                /\ last_colors' = g.last_colors
                /\ sampleOut' = g.out
                /\ reconnectOut' = g.reconnect
                /\ deviceLost' = g.lost
                /\ color' = IF g.raised THEN color ELSE g.ret
                /\ pc' = IF g.raised THEN ExitTo("Exception")
                         ELSE IF Truthy(g.ret) THEN "set_color"
                         ELSE "sleep"
    /\ UNCHANGED <<bulb, last_color, step, callOut, callStart, callFresh,
                   callConnects, written, failedAt, fresh, devLast,
                   turnOffCalls, offOut, offConnects, offCommands, stable>>

\* set_color up to the first write: connect when there is no bulb, return
\* when that fails, then choose between the fade and the direct write.
SetColorBegin ==
    /\ pc = "set_color"
    /\ \E ok \in BOOLEAN :
         /\ stable => ok
         /\ callConnects' = IF bulb THEN 0 ELSE 1
         /\ bulb' = (bulb \/ ok)
         /\ IF ~bulb /\ ~ok
            THEN /\ pc' = AfterConnectFail(last_color)
                 /\ callOut' = "connect_fail"
                 /\ step' = 0
            ELSE /\ pc' = IF FadeFrom(last_color) THEN "fade" ELSE "direct"
                 /\ callOut' = "none"
                 /\ step' = IF FadeFrom(last_color) THEN 1 ELSE 0
    /\ callStart' = last_color
    /\ callFresh' = fresh
    /\ fresh' = FALSE
    /\ written' = <<>>
    /\ failedAt' = 0
    /\ UNCHANGED <<device, led_ids, last_colors, color, last_color,
                   sampleOut, reconnectOut, deviceLost, devLast, turnOffCalls, offOut, offConnects, offCommands,
                   stable>>

\* One setRgb of set_color, with colour c; last says it is the final one.
Write(c, last) ==
    \E ok \in BOOLEAN :
       /\ stable => ok
       /\ written' = Append(written, c)
       /\ IF ok
          THEN /\ devLast' = "rgb"
               /\ bulb' = bulb
               /\ failedAt' = failedAt
               /\ IF last
                  THEN /\ last_color' = StoredColor(color)
                       /\ pc' = "sleep"
                       /\ step' = 0
                       /\ callOut' = "ok"
                  ELSE /\ last_color' = AfterStepColor(last_color, c)
                       /\ pc' = pc
                       /\ step' = step + 1
                       /\ callOut' = callOut
          ELSE /\ devLast' = devLast
               /\ bulb' = FALSE
               /\ failedAt' = Len(written) + 1
               /\ last_color' = last_color
               /\ pc' = AfterWriteFail(step).pc
               /\ step' = AfterWriteFail(step).step
               /\ callOut' = "write_fail"

\* One iteration of `for step in range(1, transition_steps + 1)`.
FadeStep ==
    /\ pc = "fade"
    /\ Write(interpolate_color(last_color, color, step),
             step = transition_steps)
    /\ UNCHANGED <<device, led_ids, last_colors, color, sampleOut,
                   reconnectOut, deviceLost, callStart, callFresh, callConnects, fresh,
                   turnOffCalls, offOut, offConnects, offCommands, stable>>

\* The else branch: the first colour is set directly.
DirectWrite ==
    /\ pc = "direct"
    /\ Write(DirectColor(color), TRUE)
    /\ UNCHANGED <<device, led_ids, last_colors, color, sampleOut,
                   reconnectOut, deviceLost, callStart, callFresh, callConnects, fresh,
                   turnOffCalls, offOut, offConnects, offCommands, stable>>

\* time.sleep(0.1), then the next iteration of `while True`.
Sleep ==
    /\ pc = "sleep"
    /\ pc' = "sample"
    /\ NoCall
    /\ UNCHANGED <<device, led_ids, last_colors, color, bulb, last_color,
                   step, sampleOut, reconnectOut, deviceLost, fresh, devLast,
                   turnOffCalls, offOut, offConnects, offCommands, stable>>

\* KeyboardInterrupt anywhere in the loop: in get_average_color, in
\* set_color (also between two writes of a fade) or in a sleep.  None of
\* the `except Exception` clauses on the way catches it.
Interrupt ==
    /\ pc \in LoopPcs
    /\ ~stable
    /\ pc' = ExitTo("KeyboardInterrupt")
    /\ UNCHANGED <<device, led_ids, last_colors, color, bulb, last_color,
                   step, sampleOut, reconnectOut, deviceLost, callOut, callStart,
                   callFresh, callConnects, written, failedAt, fresh,
                   devLast, turnOffCalls, offOut, offConnects, offCommands, stable>>

\* finally: magic_home.turn_off().  connect() and turnOff() catch their
\* own exceptions, so nothing is raised to start_bridge.
TurnOff ==
    /\ pc = "finally"
    /\ turnOffCalls' = turnOffCalls + 1
    /\ \E conn \in BOOLEAN, ok \in BOOLEAN :
         IF ~bulb /\ ~conn
         THEN /\ offOut' = "connect_fail"
              /\ bulb' = FALSE
              /\ devLast' = devLast
              /\ offCommands' = 0
         ELSE IF ok
         THEN /\ offOut' = "ok"
              /\ bulb' = TRUE
              /\ devLast' = OffCommand
              /\ offCommands' = 1
         ELSE /\ offOut' = "cmd_fail"
              /\ bulb' = FALSE
              /\ devLast' = devLast
              /\ offCommands' = 1
    /\ offConnects' = OffConnectAttempts(bulb)
    /\ pc' = AfterFinally
    /\ UNCHANGED <<device, led_ids, last_colors, color, last_color, step,
                   sampleOut, reconnectOut, deviceLost, callOut, callStart, callFresh,
                   callConnects, written, failedAt, fresh, stable>>

\* The environment settles after a failed set_color: the source keeps
\* showing what it shows, the target stays reachable, nobody interrupts.
Stabilize ==
    /\ pc = "sleep"
    /\ callOut \in {"connect_fail", "write_fail"}
    /\ ~stable
    /\ stable' = TRUE
    /\ UNCHANGED <<pc, device, led_ids, last_colors, color, bulb,
                   last_color, step, sampleOut, reconnectOut, deviceLost, callOut,
                   callStart, callFresh, callConnects, written, failedAt,
                   fresh, devLast, turnOffCalls, offOut, offConnects, offCommands>>

Next ==
    \/ Construct
    \/ InterruptInit
    \/ Sample
    \/ SetColorBegin
    \/ FadeStep
    \/ DirectWrite
    \/ Sleep
    \/ Interrupt
    \/ TurnOff
    \/ Stabilize

Spec == Init /\ [][Next]_vars

\* The program is a running process: it takes its next step.
LiveSpec == Init /\ [][Next]_vars /\ WF_vars(Next)

----------------------------------------------------------------------------
(* The fade alone, over the whole colour range *)

\* The values a colour channel can take.
Channel == 0..255

\* The (last_color, color) pairs a fade is started with: every pair of
\* channel values rising, falling and standing still, and the pair
\* (0,0,0) -> (100,200,50).
FadePairs ==
    { << <<s, e, s>>, <<e, s, s>> >> : s \in Channel, e \in Channel }
    \cup { << <<0, 0, 0>>, <<100, 200, 50>> >> }

\* set_color has connected and has entered the fade loop.
FadeInit ==
    \E p \in FadePairs :
       /\ pc = "fade"
       /\ device = TRUE
       /\ led_ids = NumLeds
       /\ last_colors = None
       /\ color = p[2]
       /\ bulb = TRUE
       /\ last_color = p[1]
       /\ step = 1
       /\ sampleOut = "returned"
       /\ reconnectOut = "none"
       /\ callOut = "none"
       /\ callStart = p[1]
       /\ callFresh = FALSE
       /\ callConnects = 0
       /\ written = <<>>
       /\ failedAt = 0
       /\ fresh = FALSE
       /\ devLast = "rgb"
       /\ turnOffCalls = 0
       /\ offOut = "none"
       /\ offConnects = 0
       /\ offCommands = 0
       /\ deviceLost = FALSE
       /\ stable = FALSE

FadeNext == FadeStep

FadeSpec == FadeInit /\ [][FadeNext]_vars

TypeOK ==
    /\ pc \in LoopPcs \cup {"init", "failed", "crashed", "finally", "done"}
    /\ device \in BOOLEAN
    /\ led_ids \in {0, NumLeds}
    /\ last_colors \in Readings \cup {None}
    /\ bulb \in BOOLEAN
    /\ step \in 0..transition_steps
    /\ sampleOut \in {"none", "returned", "suppressed", "reconnected", "raised"}
    /\ reconnectOut \in ReconnectOutcomes \cup {"none"}
    /\ callOut \in CallOuts
    /\ Len(written) <= transition_steps
    /\ devLast \in {"none", "rgb", "off"}
    /\ turnOffCalls \in 0..1
    /\ offOut \in {"none", "ok", "connect_fail", "cmd_fail"}
    /\ offConnects \in 0..1
    /\ offCommands \in 0..1
    /\ deviceLost \in BOOLEAN

----------------------------------------------------------------------------
(* Properties *)

WriteFailed == callOut \in {"connect_fail", "write_fail"}

\* C1: once the loop has been entered, every way of leaving it (a
\* KeyboardInterrupt anywhere in a tick, an exception escaping
\* get_average_color) reaches the finally block, turn_off is invoked
\* exactly once, and start_bridge returns normally whatever turn_off met.
C1_TurnOffExactlyOnce ==
    /\ [](pc \in LoopPcs \cup {"finally"} => turnOffCalls = 0)
    /\ [](pc = "done" => turnOffCalls = 1)
    /\ [][(pc \in LoopPcs \cup {"finally"} =>
             pc' \in (LoopPcs \cup {"finally", "done"}))]_vars
    /\ [](pc = "finally" => <>(pc = "done" /\ turnOffCalls = 1))

\* The loop was left by an exception of get_average_color, turn_off's
\* power-off command failed, and start_bridge still ended normally.
C1_Witness ==
    /\ pc = "done"
    /\ sampleOut = "raised"
    /\ offOut = "cmd_fail"
    /\ turnOffCalls = 1

\* C2: after a set_color call that failed, with the target reachable and
\* the source reading constant from then on, the actuator catches up:
\* last_color eventually equals the source's current aggregate.
C2_StaleStateRecovers ==
    (stable /\ WriteFailed)
        ~> (last_colors # None /\ last_color = AverageColor(last_colors))

\* C3: a failed SDK connect inside reconnect() never makes
\* get_average_color raise to start_bridge.
C3_ConnectFailureAbsorbed ==
    ~(sampleOut = "raised" /\ reconnectOut = "connect_fail")

\* C4: of two consecutive successful reads with equal averaged colours,
\* the second returns None, whatever the per-LED readings are.
C4_SuppressedOnEqualAggregate ==
    [][(/\ pc = "sample"
        /\ sampleOut \in {"returned", "suppressed"}
        /\ sampleOut' \in {"returned", "suppressed"}
        /\ pc' \in {"set_color", "sleep"}
        /\ AverageColor(last_colors') = AverageColor(last_colors))
       => sampleOut' = "suppressed"]_vars

\* C5: set_color is never invoked with a colour equal to last_color.
C5_NeverFadeToSameColor ==
    pc = "set_color" => color # last_color

\* C6: the first successful get_average_color call after a read failure
\* and a successful reconnect returns a colour, also for a reading equal
\* to the one seen before the failure.
C6_NotSuppressedAfterReconnect ==
    [][(/\ pc = "sample"
        /\ sampleOut = "reconnected"
        /\ sampleOut' \in {"returned", "suppressed"})
       => sampleOut' = "returned"]_vars

\* C7: a set_color call that had to reconnect finds last_color unknown
\* and applies its colour directly with one write, without fading.
C7_DirectAfterReconnect ==
    /\ (pc \in {"fade", "direct"} /\ callConnects = 1) => last_color = None
    /\ (pc = "sleep" /\ callOut = "ok" /\ callConnects = 1)
           => written = <<color>>

C9_FailFast ==
    [][(callOut' = "write_fail" /\ callOut # "write_fail") =>
          LET k == IF pc = "fade" THEN step ELSE 1
          IN  /\ pc \in {"fade", "direct"}
              /\ k \in 1..transition_steps
              /\ Len(written) = k - 1
              /\ Len(written') = k
              /\ failedAt' = k
              /\ pc' = "sleep"
              /\ ~bulb'
              /\ last_color' = last_color
              /\ last_color' = callStart']_vars

\* The third of the ten writes of a fade raised.
C9_Witness ==
    /\ pc = "sleep"
    /\ callOut = "write_fail"
    /\ callStart # None
    /\ failedAt = 3
    /\ Len(written) = 3
    /\ ~bulb

\* C10: the first set_color call on a fresh, reachable actuator issues
\* exactly one setRgb, carrying the colour asked for, and then last_color
\* is that colour; (0,0,0) is no exception.
C10_FirstColorDirect ==
    (pc = "sleep" /\ callFresh /\ callOut = "ok") =>
        /\ callStart = None
        /\ written = <<color>>
        /\ last_color = color

\* The first colour ever commanded is black.
C10_Witness ==
    /\ pc = "sleep"
    /\ callFresh
    /\ callOut = "ok"
    /\ color = <<0, 0, 0>>
    /\ written = << <<0, 0, 0>> >>
    /\ last_color = <<0, 0, 0>>

\* The exact value of start + (end - start) * i / N, truncated.
ExactChannel(s, e, i) ==
    (s * transition_steps + (e - s) * i) \div transition_steps

ExactColor(s, e, i) ==
    << ExactChannel(s[1], e[1], i), ExactChannel(s[2], e[2], i),
       ExactChannel(s[3], e[3], i) >>

\* C11: a fade from a known last_color S to E whose writes all succeed
\* issues exactly transition_steps writes, the i-th being
\* S + (E - S) * i / N truncated, and ends with last_color = E.
C11_FadeWritesExactSteps ==
    (pc = "sleep" /\ callOut = "ok" /\ callStart # None) =>
        /\ Len(written) = transition_steps
        /\ \A i \in 1..Len(written) :
               written[i] = ExactColor(callStart, color, i)
        /\ last_color = color

\* C12: the colours written during a fade are monotonic on every channel,
\* lie between the start and the end colour, and the last one written of
\* a complete fade is the end colour.
C12_FadeMonotonicBounded ==
    (callStart # None) =>
        /\ \A i \in 1..Len(written) : \A ch \in 1..3 :
              LET s == callStart[ch]
                  e == color[ch]
                  w == written[i][ch]
                  prev == IF i = 1 THEN s ELSE written[i - 1][ch]
              IN  /\ (e >= s) => (prev <= w /\ s <= w /\ w <= e)
                  /\ (e <= s) => (prev >= w /\ s >= w /\ w >= e)
        /\ (Len(written) = transition_steps) =>
               written[transition_steps] = color

\* The fade from (0,0,0) to (100,200,50) has been written completely.
C12_Witness ==
    /\ callStart = <<0, 0, 0>>
    /\ color = <<100, 200, 50>>
    /\ callOut = "ok"
    /\ Len(written) = transition_steps
    /\ written[5] = <<50, 100, 25>>
    /\ written[transition_steps] = <<100, 200, 50>>

\* C13: a set_color call made without a bulb calls connect() exactly
\* once; when that fails the call writes nothing, returns normally and
\* leaves last_color and the disconnected state as they were.
C13_ConnectOnceThenNoop ==
    [][(pc = "set_color" /\ ~bulb /\ pc' \in {"fade", "direct", "sleep"}) =>
          /\ callConnects' = 1
          /\ ~bulb' => /\ pc' = "sleep"
                       /\ callOut' = "connect_fail"
                       /\ written' = <<>>
                       /\ last_color' = last_color
                       /\ devLast' = devLast]_vars

\* A set_color call found no bulb, could not connect and returned; the
\* colour commanded earlier is still the last colour.
C13_Witness ==
    /\ pc = "sleep"
    /\ callOut = "connect_fail"
    /\ callConnects = 1
    /\ written = <<>>
    /\ last_color # None
    /\ ~bulb

\* The sum of one channel over all LEDs of a reading.
ChannelTotal(leds, ch) ==
    LET f[i \in 0..Len(leds)] == IF i = 0 THEN 0 ELSE f[i - 1] + leds[i][ch]
    IN  f[Len(leds)]

\* C14: the colour get_average_color returns is, on every channel, the
\* sum over all LEDs divided by the LED count and truncated: the largest
\* integer q with q * count <= sum.  The reading it averages is not empty.
C14_TruncatedMean ==
    (pc = "set_color") =>
        /\ Len(last_colors) > 0
        /\ \A ch \in 1..3 :
              LET n == Len(last_colors)
                  total == ChannelTotal(last_colors, ch)
              IN  /\ color[ch] * n <= total
                  /\ total < (color[ch] + 1) * n

\* [(255,0,0), (0,255,0)] has been averaged to (127,127,0).
C14_Witness ==
    /\ pc = "set_color"
    /\ Len(last_colors) = 2
    /\ last_colors[1] = <<255, 0, 0>>
    /\ last_colors[2] = <<0, 255, 0>>
    /\ color = <<127, 127, 0>>

\* C15 (as stated): a reconnect() that does not find the device during
\* a sample is fatal: get_average_color raises and the loop is left.
C15_DeviceLostIsFatal ==
    deviceLost => (sampleOut = "raised" /\ pc \in {"finally", "done"})

\* C15 (amended): when the last reconnect() of a get_average_color call
\* does not find the device, the call raises, the loop is left for good
\* and turn_off is invoked.
C15_LastReconnectNotFoundIsFatal ==
    (reconnectOut = "not_found") =>
        /\ deviceLost
        /\ ~device
        /\ sampleOut = "raised"
        /\ pc \in {"finally", "done"}
        /\ (pc = "done") => turnOffCalls = 1

\* The device was not found by a reconnect and the bridge has stopped.
C15_Witness ==
    /\ reconnectOut = "not_found"
    /\ sampleOut = "raised"
    /\ pc = "done"
    /\ turnOffCalls = 1

\* C16: a tick calls set_color exactly when get_average_color returned a
\* colour (also (0,0,0)), with that colour; set_color starts only after
\* the sample of its tick and has returned before the next sample.
C16_OneCallPerTick ==
    [][/\ (pc = "sample" /\ pc' \in {"set_color", "sleep"}) =>
             /\ (pc' = "set_color") <=> (sampleOut' = "returned")
             /\ (pc' = "set_color") => color' = AverageColor(last_colors')
             /\ (pc' = "sleep") => (callOut' = "none" /\ written' = written)
       /\ (pc' = "set_color" /\ pc # "set_color") => pc = "sample"
       /\ (pc \in {"set_color", "fade", "direct"} /\ pc' # pc) =>
             pc' \in {"fade", "direct", "sleep", "finally"}
       /\ (pc = "sleep" /\ pc' # pc) => pc' \in {"sample", "finally"}
       /\ (pc' = "sample" /\ pc # "sample") => pc \in {"sleep", "init"}]_vars

\* The sample returned (0,0,0) and set_color is about to be called with it.
C16_Witness ==
    /\ pc = "set_color"
    /\ sampleOut = "returned"
    /\ color = <<0, 0, 0>>

\* C17: once the loop has been left, nothing is sampled and no colour is
\* commanded any more; once turn_off has been invoked, nothing happens.
C17_StoppedIsTerminal ==
    [][/\ (pc = "finally") =>
             /\ pc' \in {"finally", "done"}
             /\ sampleOut' = sampleOut
             /\ last_colors' = last_colors
             /\ callOut' = callOut
             /\ written' = written
             /\ devLast' \in {devLast, "off"}
       /\ (turnOffCalls > 0) =>
             /\ pc' = pc
             /\ sampleOut' = sampleOut
             /\ last_colors' = last_colors
             /\ callOut' = callOut
             /\ written' = written
             /\ devLast' = devLast
             /\ turnOffCalls' = turnOffCalls]_vars

\* The bridge has stopped after a tick that applied a colour.
C17_Witness ==
    /\ pc = "done"
    /\ turnOffCalls = 1
    /\ sampleOut = "returned"
    /\ callOut = "ok"

\* C18: turn_off connects exactly once when there is no bulb and stops
\* there when that fails; otherwise it issues exactly one power-off
\* command and no colour write; a failed power-off marks the actuator
\* disconnected, and turn_off returns normally in every case.
C18_TurnOffDirect ==
    [][(pc = "finally" /\ turnOffCalls' = turnOffCalls + 1) =>
          /\ offConnects' = (IF bulb THEN 0 ELSE 1)
          /\ (offOut' = "connect_fail") =>
                (~bulb /\ ~bulb' /\ offCommands' = 0 /\ devLast' = devLast)
          /\ (offOut' # "connect_fail") => offCommands' = 1
          /\ (offOut' = "cmd_fail") => (~bulb' /\ devLast' = devLast)
          /\ (offOut' = "ok") => devLast' = "off"
          /\ devLast' \in {devLast, "off"}
          /\ written' = written
          /\ last_color' = last_color
          /\ pc' = "done"]_vars

\* turn_off found no bulb, connected, and the power-off command failed.
C18_Witness ==
    /\ pc = "done"
    /\ offOut = "cmd_fail"
    /\ offConnects = 1
    /\ offCommands = 1
    /\ ~bulb

InRange(c) == c = None \/ \A ch \in 1..3 : c[ch] \in Channel

\* C19: every colour returned by get_average_color, stored in last_color
\* or written to the target, the intermediate colours of a fade included,
\* has its channels in 0..255.
C19_ChannelsInRange ==
    /\ InRange(color)
    /\ InRange(last_color)
    /\ \A i \in 1..Len(written) : InRange(written[i])

\* A fade from (0,0,0) to (180,0,0) has written its seventh colour.
C19_Witness ==
    /\ pc = "fade"
    /\ step = 8
    /\ last_color = <<0, 0, 0>>
    /\ color = <<180, 0, 0>>
    /\ written[7] = <<125, 0, 0>>

\* C20: last_color changes only when a set_color call ends with every
\* write succeeded, and then to that call's colour; connect, turn_off, a
\* set_color whose connect failed and an aborted set_color leave it alone.
C20_LastColorOnlyOnSuccess ==
    [][/\ (last_color' # last_color) =>
             /\ pc \in {"fade", "direct"}
             /\ pc' = "sleep"
             /\ callOut' = "ok"
             /\ failedAt' = 0
             /\ Len(written') = (IF pc = "fade" THEN transition_steps ELSE 1)
       /\ (callOut' = "ok" /\ callOut # "ok") => last_color' = color
       /\ (callOut' \in {"connect_fail", "write_fail"}) =>
             last_color' = last_color]_vars

\* A fade was aborted at its fourth write: last_color is still the colour
\* the fade started from, not the colour written last.
C20_Witness ==
    /\ pc = "sleep"
    /\ callOut = "write_fail"
    /\ failedAt = 4
    /\ last_color = callStart
    /\ written[3] # last_color

====
